---- MODULE Spec2Model ----
(***************************************************************************)
(* Model of the ServiceNow OAuth client of snow-code:                       *)
(*   - class ServiceNowOAuth of cli/cmd/attach.ts (browser flow with a      *)
(*     local callback listener on port 3005, a 5-minute timeout, a          *)
(*     rate-limited token client),                                          *)
(*   - class ServiceNowOAuth of auth/servicenow-oauth.ts (code-paste flow), *)
(*   - the credential store Auth of auth/index.ts.                          *)
(*                                                                          *)
(* One ServiceNowOAuth instance runs one authenticate call (cli/cmd/auth.ts *)
(* creates a fresh instance for every call) and any number of               *)
(* refreshAccessToken calls; SpecReentrant adds a second authenticate call  *)
(* on the same instance.  The JavaScript runtime is single-threaded:        *)
(* every action below is one run-to-completion step of the event loop, from *)
(* an event (a call, an HTTP request, a timer, a fetch response) to the     *)
(* next point at which the code awaits I/O.                                 *)
(*                                                                          *)
(* Environment assumptions: the HTTP server delivers a request to the       *)
(* handler only while it is listening (server.close() stops it accepting);  *)
(* handlers already awaiting the token endpoint run on after close.         *)
(* server.close() on a closed server and resolve() on a settled promise are *)
(* no-ops, as in Node.                                                      *)
(* Bun.write replaces the content of auth.json in one step; a call of       *)
(* Auth.set or Auth.remove is interleaved with other calls between its read *)
(* of the file and its write.                                               *)
(***************************************************************************)
EXTENDS Integers, Sequences, FiniteSets, TLC

VARIABLES
    now,               \* Date.now(), in ms
    lastTokenRequest,  \* this.lastTokenRequest
    tokenRequestCount, \* this.tokenRequestCount
    stateParameter,    \* this.stateParameter
    codeVerifier,      \* this.codeVerifier
    codeChallenge,     \* this.codeChallenge
    pc,                \* position of the authenticate call
    flowKind,          \* which class' authenticate runs: "listener" or "paste"
    opts,              \* the options of the authenticate call
    normalizedInstance,\* const normalizedInstance of authenticate
    browserOpened,     \* openBrowser was called
    authUrl,           \* the query of the authorization URL of the flow
    listenCalls,       \* number of server.listen calls (binds of port 3005)
    serverOpen,        \* the listening socket of the callback server is open
    socketCloses,      \* number of times the listening socket was closed
    timerArmed,        \* the setTimeout of startCallbackServer is pending
    timerDeadline,     \* the instant at which it fires
    resolved,          \* the promise of startCallbackServer is settled
    result,            \* the value it was resolved with
    returned,          \* the value authenticate returned
    inflight,          \* callback handlers awaiting the token endpoint
    reqCount,          \* requests the callback server has received
    callbackSeen,      \* one of them was a request to /callback
    refreshPending,    \* refreshAccessToken calls awaiting the token endpoint
    pendingSet,        \* the record authenticate is writing with Auth.set
    store,             \* the file auth.json: its kind and, parsed, key -> record
    storeOps,          \* Auth.set / Auth.remove calls between their read and write
    storeOut,          \* what the most recent call of the Auth namespace did
    fileMode,          \* the permission bits of auth.json
    allowedLog,        \* how many checks the rate limiter allowed, by instant
    last               \* what the most recent step did (observation)

vars == <<now, lastTokenRequest, tokenRequestCount, stateParameter, codeVerifier,
          codeChallenge, pc, flowKind, opts, normalizedInstance, browserOpened,
          authUrl,
          listenCalls, serverOpen, socketCloses, timerArmed, timerDeadline,
          resolved, result, returned, inflight, reqCount, callbackSeen,
          refreshPending, pendingSet, store, storeOps, storeOut, fileMode,
          allowedLog,
          last>>

----------------------------------------------------------------------------
(* Bounds of the model *)

\* the clock starts at StartTime and is observed at window multiples plus a skew
StartTime == 1000000
MaxWindows == 1
MaxSkew == 1
\* requests the callback server receives in one flow
MaxRequests == 2
\* refreshAccessToken calls awaiting their response at one time
MaxRefreshPending == 1
\* Auth.set / Auth.remove calls between their read and their write at one time
MaxStoreOps == 2
\* calls of the Auth namespace in one run
MaxStoreCalls == 3
\* authenticate calls made on one instance of the listener class
MaxCalls == 2
\* checks of the rate limiter allowed at one instant
MaxAllowedAtOnce == 21

(* Program constants *)

TOKEN_REQUEST_WINDOW_MS == 60000
MAX_TOKEN_REQUESTS_PER_WINDOW == 10
CALLBACK_TIMEOUT_MS == 300000
MIN_SECRET_LENGTH == 32

----------------------------------------------------------------------------
(* Values *)

\* JavaScript undefined / null for strings and for numbers
Undef == "undefined"
NoNum == 0 - 1
Truthy(s) == s # Undef /\ s # ""

\* error messages are tuples, so that a message can carry a value
Err1(msg) == <<msg>>
Err2(msg, detail) == <<msg, detail>>
NoErr == <<>>

\* ServiceNowAuthResult
Failure(err) ==
    [success |-> FALSE, accessToken |-> Undef, refreshToken |-> Undef,
     expiresIn |-> NoNum, error |-> err]
NoResult == Failure(Err1("pending"))

----------------------------------------------------------------------------
(* Strings are sequences of one-character strings *)

RECURSIVE Rep(_, _)
Rep(c, n) == IF n = 0 THEN <<>> ELSE <<c>> \o Rep(c, n - 1)

Whitespace == {" ", "\t"}
\* String.prototype.trim() === ""
IsBlank(s) == \A i \in 1..Len(s) : s[i] \in Whitespace

\* String.prototype.toLowerCase, on the letters the model uses
LowerOf(c) ==
    CASE c = "S" -> "s" [] c = "N" -> "n" [] c = "O" -> "o" [] c = "W" -> "w"
      [] c = "P" -> "p" [] c = "A" -> "a" [] c = "X" -> "x" [] OTHER -> c
ToLower(s) == [i \in 1..Len(s) |-> LowerOf(s[i])]

\* String.prototype.includes
Includes(s, w) ==
    \E i \in 1..(Len(s) - Len(w) + 1) : SubSeq(s, i, i + Len(w) - 1) = w

commonPasswords ==
    << <<"p","a","s","s","w","o","r","d">>, <<"a","d","m","i","n">>,
       <<"s","e","c","r","e","t">>, <<"c","l","i","e","n","t">>,
       <<"s","n","o","w">> >>

ReasonRequired == Err1("Client secret is required")
ReasonTooShort == Err1("Client secret is too short (should be 32+ characters)")
ReasonCommon == Err1("Client secret appears to be a common password")

\* a mutant of validateClientSecret: the length check is dropped
validateClientSecretNoLength(secret) ==
    IF Len(secret) = 0 \/ IsBlank(secret)
    THEN [valid |-> FALSE, reason |-> ReasonRequired]
    ELSE IF \E k \in 1..Len(commonPasswords) :
                Includes(ToLower(secret), commonPasswords[k])
    THEN [valid |-> FALSE, reason |-> ReasonCommon]
    ELSE [valid |-> TRUE, reason |-> NoErr]

\* a mutant of validateClientSecret: the deny-list is looked at before the
\* length
validateClientSecretWordsFirst(secret) ==
    IF Len(secret) = 0 \/ IsBlank(secret)
    THEN [valid |-> FALSE, reason |-> ReasonRequired]
    ELSE IF \E k \in 1..Len(commonPasswords) :
                Includes(ToLower(secret), commonPasswords[k])
    THEN [valid |-> FALSE, reason |-> ReasonCommon]
    ELSE IF Len(secret) < MIN_SECRET_LENGTH
    THEN [valid |-> FALSE, reason |-> ReasonTooShort]
    ELSE [valid |-> TRUE, reason |-> NoErr]

\* validateClientSecret: whether the secret is accepted, and the reason when
\* it is not
validateClientSecret(secret) ==
    IF Len(secret) = 0 \/ IsBlank(secret)
    THEN [valid |-> FALSE, reason |-> ReasonRequired]
    ELSE IF Len(secret) < MIN_SECRET_LENGTH
    THEN [valid |-> FALSE, reason |-> ReasonTooShort]
    ELSE IF \E k \in 1..Len(commonPasswords) :
                Includes(ToLower(secret), commonPasswords[k])
    THEN [valid |-> FALSE, reason |-> ReasonCommon]
    ELSE [valid |-> TRUE, reason |-> NoErr]

\* the client secrets the model passes to authenticate
GoodSecret == Rep("x", MIN_SECRET_LENGTH)
Secrets ==
    { <<>>, Rep(" ", MIN_SECRET_LENGTH + 8), <<"s","h","o","r","t">>,
      <<"s","n","o","w">>, Rep("x", MIN_SECRET_LENGTH - 1),
      Rep("x", MIN_SECRET_LENGTH - 4) \o <<"S","N","O","W">>, GoodSecret }

(* Instance URLs are sequences of tokens: a scheme, names, a domain suffix, *)
(* slashes                                                                  *)

Schemes == {"https://", "http://"}

RECURSIVE StripTrailingSlashes(_)
\* instance.replace(/\/+$/, "")
StripTrailingSlashes(u) ==
    IF Len(u) > 0 /\ u[Len(u)] = "/"
    THEN StripTrailingSlashes(SubSeq(u, 1, Len(u) - 1))
    ELSE u

\* String.prototype.replace(tok, ""): the first occurrence of tok is removed
RemoveFirst(u, tok) ==
    IF \E i \in 1..Len(u) : u[i] = tok
    THEN LET i == CHOOSE j \in 1..Len(u) :
                      u[j] = tok /\ \A k \in 1..(j - 1) : u[k] # tok
         IN  SubSeq(u, 1, i - 1) \o SubSeq(u, i + 1, Len(u))
    ELSE u

HasToken(u, tok) == \E i \in 1..Len(u) : u[i] = tok

normalizeInstanceUrl(instance) ==
    LET stripped == StripTrailingSlashes(instance)
        schemed == IF Len(stripped) > 0 /\ stripped[1] \in Schemes
                   THEN stripped
                   ELSE <<"https://">> \o stripped
    IN  IF /\ ~HasToken(schemed, ".service-now.com")
           /\ ~HasToken(schemed, "localhost")
           /\ ~HasToken(schemed, "127.0.0.1")
        THEN <<"https://">>
               \o RemoveFirst(RemoveFirst(schemed, "https://"), "http://")
               \o <<".service-now.com">>
        ELSE schemed

Instances ==
    { <<"dev12345">>,
      <<"https://", "dev12345", ".service-now.com", "/">> }

ClientIds == {"cid1"}

(* Secret material *)

\* crypto.randomBytes(16).toString("base64url"): a fresh random value
States == {"st1"}
\* the value generateState returns when it is called a second time
FreshStates == {"st2"}
\* crypto.randomBytes(32).toString("base64url")
Verifiers == {"v1", "v2"}
\* a mutant of Sha256B64: the challenge is the verifier itself
Sha256B64Plain(v) == <<"plain", v>>

\* base64url(SHA-256(v)): an injective function of the verifier
Sha256B64(v) == <<"sha256", v>>
NoChallenge == <<>>

\* generateAuthUrlWithCallback / generateAuthUrl: the query parameters of the
\* authorization URL that carry the client, the state and the PKCE challenge
generateAuthUrl(clientId, state, challenge) ==
    [client_id |-> clientId, state |-> state, code_challenge |-> challenge,
     code_challenge_method |-> "S256"]
NoUrl == generateAuthUrl(Undef, Undef, NoChallenge)

(* Rate limiter *)

\* a mutant of checkTokenRequestRateLimit: the limit is not enforced
checkTokenRequestRateLimitNoLimit(t, lastReq, count) ==
    LET reset == t - lastReq > TOKEN_REQUEST_WINDOW_MS
    IN  [allowed |-> TRUE, lastTokenRequest |-> IF reset THEN t ELSE lastReq,
         tokenRequestCount |-> IF reset THEN 1 ELSE count + 1]

\* a mutant of checkTokenRequestRateLimit: a denied check is counted too
checkTokenRequestRateLimitCountDenied(t, lastReq, count) ==
    LET reset == t - lastReq > TOKEN_REQUEST_WINDOW_MS
        c0 == IF reset THEN 0 ELSE count
        l0 == IF reset THEN t ELSE lastReq
    IN  [allowed |-> c0 < MAX_TOKEN_REQUESTS_PER_WINDOW, lastTokenRequest |-> l0,
         tokenRequestCount |-> c0 + 1]

\* a mutant of checkTokenRequestRateLimit: the window restarts at 60000 ms
checkTokenRequestRateLimitResetAtWindow(t, lastReq, count) ==
    LET reset == t - lastReq >= TOKEN_REQUEST_WINDOW_MS
        c0 == IF reset THEN 0 ELSE count
        l0 == IF reset THEN t ELSE lastReq
    IN  IF c0 >= MAX_TOKEN_REQUESTS_PER_WINDOW
        THEN [allowed |-> FALSE, lastTokenRequest |-> l0, tokenRequestCount |-> c0]
        ELSE [allowed |-> TRUE, lastTokenRequest |-> l0, tokenRequestCount |-> c0 + 1]

\* a mutant of checkTokenRequestRateLimit: the window never restarts
checkTokenRequestRateLimitNoReset(t, lastReq, count) ==
    IF count >= MAX_TOKEN_REQUESTS_PER_WINDOW
    THEN [allowed |-> FALSE, lastTokenRequest |-> lastReq, tokenRequestCount |-> count]
    ELSE [allowed |-> TRUE, lastTokenRequest |-> lastReq, tokenRequestCount |-> count + 1]

\* checkTokenRequestRateLimit at time t with the fields lastReq and count:
\* the boolean it returns and the fields it leaves
checkTokenRequestRateLimit(t, lastReq, count) ==
    LET reset == t - lastReq > TOKEN_REQUEST_WINDOW_MS
        c0 == IF reset THEN 0 ELSE count
        l0 == IF reset THEN t ELSE lastReq
    IN  IF c0 >= MAX_TOKEN_REQUESTS_PER_WINDOW
        THEN [allowed |-> FALSE, lastTokenRequest |-> l0, tokenRequestCount |-> c0]
        ELSE [allowed |-> TRUE, lastTokenRequest |-> l0, tokenRequestCount |-> c0 + 1]

\* a mutant of TokenCallProceeds: the call goes on whatever the check returned
TokenCallProceedsAnyway(allowed) == TRUE

\* if (!this.checkTokenRequestRateLimit()) return {success: false, ...}: the
\* exchange or refresh call goes on to its fetch only when the check returned
\* true
TokenCallProceeds(allowed) == allowed

\* what the check returned, as recorded in the observation of a step
LimiterLabel(allowed) == IF allowed THEN "allowed" ELSE "denied"

----------------------------------------------------------------------------
(* The environment's inputs *)

\* the instants at which the rate limiter is called when it is watched alone:
\* the start, one window later to the millisecond, one millisecond after
\* that, and the same two steps once more
LimiterInstants ==
    { StartTime, StartTime + TOKEN_REQUEST_WINDOW_MS,
      StartTime + TOKEN_REQUEST_WINDOW_MS + 1,
      StartTime + 2 * TOKEN_REQUEST_WINDOW_MS + 1,
      StartTime + 2 * TOKEN_REQUEST_WINDOW_MS + 2 }
\* no check allowed yet
EmptyLog == [t \in LimiterInstants |-> 0]


\* the instants at which the clock is observed
Instants ==
    { StartTime + k * TOKEN_REQUEST_WINDOW_MS + e :
          k \in 0..MaxWindows, e \in 0..MaxSkew }

AuthOptions == [instance : Instances, clientId : ClientIds, clientSecret : Secrets]
NoOpts == [instance |-> <<>>, clientId |-> Undef, clientSecret |-> <<>>]

\* an HTTP request to the callback server: its request target and the values
\* url.searchParams.get gives for state, code and error (Undef for null)
Targets == {"/callback", "/favicon.ico", "//"}
\* new URL(req.url, base) throws on a target that has no host, such as "//"
Parses(target) == target # "//"
ReqStates == States \cup {Undef, "forged"}
ReqCodes == {Undef, "", "abc123"}
ReqErrors == {Undef, "", "access_denied"}
Requests ==
    { r \in [target : Targets, state : ReqStates, code : ReqCodes, error : ReqErrors] :
          r.target # "/callback" =>
              r.state = Undef /\ r.code = Undef /\ r.error = Undef }
NoReq == [target |-> "none", state |-> Undef, code |-> Undef, error |-> Undef]

\* what the user gives the code prompt of the code-paste flow: a cancel, or a
\* text holding a code and, when a whole redirect URL is pasted, a state
PasteInputs == [cancel : BOOLEAN, code : {"abc123"}, state : ReqStates]

\* what the token endpoint answers: a 2xx JSON body, a non-2xx status, a 2xx
\* body with an error field, or a failed fetch / unparsable body; error is
\* the error field of the body, Undef when the body has none
OkResponses ==
    { [kind |-> "ok", error |-> Undef, access_token |-> "AT1",
       refresh_token |-> "RT1", expires_in |-> 1800],
      [kind |-> "ok", error |-> Undef, access_token |-> "AT1",
       refresh_token |-> Undef, expires_in |-> 0],
      [kind |-> "ok", error |-> Undef, access_token |-> Undef,
       refresh_token |-> Undef, expires_in |-> NoNum] }
BadResponse(kind) ==
    [kind |-> kind,
     error |-> IF kind = "oauth_error" THEN "invalid_grant" ELSE Undef,
     access_token |-> Undef, refresh_token |-> Undef, expires_in |-> NoNum]
\* a 2xx body whose error field is the empty string, next to its tokens
EmptyErrorResponse ==
    [kind |-> "ok", error |-> "", access_token |-> "AT1",
     refresh_token |-> "RT1", expires_in |-> 1800]
TokenResponses ==
    OkResponses \cup
    { EmptyErrorResponse,
      BadResponse("http_error"), BadResponse("oauth_error"), BadResponse("thrown") }
\* response.ok, and whether the parsed body has an error field
Is2xx(resp) == resp.kind \in {"ok", "oauth_error"}
HasErrorField(resp) == Is2xx(resp) /\ resp.error # Undef

\* the arguments the caller passes to refreshAccessToken
RefreshInstance == <<"https://", "dev12345", ".service-now.com">>
RefreshTokens == {"RT0"}

(* The credential store *)

Keys == {"servicenow", "anthropic"}
Absent == [type |-> "absent"]
\* an object that has no key
EmptyData == [k \in Keys |-> Absent]

\* the file auth.json: missing, a text that is not JSON, the JSON text null,
\* or the JSON text of an object (data: what each key holds)
FileMissing == [kind |-> "missing", data |-> EmptyData]
FileCorrupt == [kind |-> "corrupt", data |-> EmptyData]
FileNull == [kind |-> "null", data |-> EmptyData]
FileObject(data) == [kind |-> "object", data |-> data]

InitialStore ==
    FileObject([k \in Keys |-> IF k = "anthropic"
                                THEN [type |-> "api", key |-> "sk-1"]
                                ELSE Absent])

\* JavaScript: x ? Date.now() + x * 1000 : undefined
ExpiresAt(t, expiresIn) ==
    IF expiresIn # NoNum /\ expiresIn # 0 THEN t + expiresIn * 1000 ELSE NoNum

ServiceNowRecord(instance, clientId, clientSecret, access, refresh, expiresAt) ==
    [type |-> "servicenow-oauth", instance |-> instance, clientId |-> clientId,
     clientSecret |-> clientSecret, accessToken |-> access, refreshToken |-> refresh,
     expiresAt |-> expiresAt]

\* JSON.stringify, read back by file.json(): a field whose value is undefined
\* is not written, so the record read back does not have it
NumberFields == {"expiresAt", "expires"}
IsUndefinedAt(r, f) == IF f \in NumberFields THEN r[f] = NoNum ELSE r[f] = Undef
JsonStringify(r) == [f \in {g \in DOMAIN r : ~IsUndefinedAt(r, g)} |-> r[f]]
\* x.f of a record: undefined when the record has no field f
Read(r, f) ==
    IF f \in DOMAIN r THEN r[f] ELSE IF f \in NumberFields THEN NoNum ELSE Undef

\* Auth.all: file.json().catch(() => ({})): a missing file and a text that is
\* not JSON give {}, the JSON text null gives null
AuthAll(file) ==
    [isNull |-> file.kind = "null",
     data |-> IF file.kind = "object" THEN file.data ELSE EmptyData]

\* Auth.get: x[providerID] of what the file parses to; throws on null
AuthGet(file, key) ==
    IF file.kind = "null"
    THEN [threw |-> TRUE, value |-> Absent]
    ELSE [threw |-> FALSE, value |-> AuthAll(file).data[key]]

\* a mutant of AuthSet: a key that the object has keeps its record
AuthSetKeepExisting(data, key, info) ==
    IF data[key] = Absent THEN [data EXCEPT ![key] = info] ELSE data

\* a mutant of AuthSet: the object written has the one key only
AuthSetReplace(data, key, info) == [k \in Keys |-> IF k = key THEN info ELSE Absent]

\* Auth.set: {...data, [key]: info} of the object that was read
AuthSet(data, key, info) == [data EXCEPT ![key] = info]

\* Auth.remove: delete data[key] of the object that was read
AuthRemove(data, key) == [data EXCEPT ![key] = Absent]

\* Bun.write(file, JSON.stringify(data, null, 2)): the file is replaced by the
\* JSON text of the object
WriteFile(data) == FileObject([k \in Keys |-> JsonStringify(data[k])])

\* how Bun.write and fs.chmod of a call end, and what the call rejects with
WriteOutcomes == {"ok", "write_failed", "chmod_failed"}
ErrorOf(outcome) ==
    CASE outcome = "write_failed" -> "write"
      [] outcome = "chmod_failed" -> "chmod"
      [] OTHER -> "none"

\* Permission bits of auth.json: 0600 is what chmod sets; a file that
\* Bun.write creates gets 0666 less the umask of the process: 0644 with the
\* umask 022, 0600 with the umask 077
Mode0600 == 384
Mode0644 == 420
NoMode == 0
CreateModes == {Mode0644, Mode0600}
\* mode: the bits the file has; afterWrite: the bits it had between the most
\* recent Bun.write and the chmod that follows it
InitialMode(file) ==
    IF file.kind = "missing"
    THEN [mode |-> NoMode, afterWrite |-> NoMode]
    ELSE [mode |-> Mode0600, afterWrite |-> NoMode]
\* Bun.write keeps the bits of a file that exists
ModeAfterWrite(file, fm, createMode) ==
    IF file.kind = "missing" THEN createMode ELSE fm.mode
\* await Bun.write(...); await fs.chmod(file.name, 0o600)
FileModeAfter(file, fm, outcome, createMode) ==
    CASE outcome = "write_failed" -> fm
      [] outcome = "chmod_failed" ->
           [mode |-> ModeAfterWrite(file, fm, createMode),
            afterWrite |-> ModeAfterWrite(file, fm, createMode)]
      [] OTHER ->
           [mode |-> Mode0600,
            afterWrite |-> ModeAfterWrite(file, fm, createMode)]

\* the outcome of a call of the Auth namespace
\* (n: the calls that have ended so far; error: what it rejected with;
\* written: it replaced the file; value: what it returned; info: the record
\* it was given; beforeKind: the kind of file it read; lost: the keys that
\* other calls had changed between its read and its write; prior: the call
\* before it)
Prior(o) ==
    [op |-> o.op, key |-> o.key, written |-> o.written, beforeKind |-> o.beforeKind]
Outcome(op, id, key, error, written, value, info, beforeKind, lost, prior, n) ==
    [op |-> op, id |-> id, key |-> key, error |-> error, written |-> written,
     value |-> value, info |-> info, beforeKind |-> beforeKind, lost |-> lost,
     prior |-> prior, n |-> n]
NoOutcome ==
    Outcome("none", 0, "none", "none", FALSE, Absent, Absent, "none", {},
            [op |-> "none", key |-> "none", written |-> FALSE, beforeKind |-> "none"],
            0)

(* Results *)

ErrInvalidState == Err1("Invalid state parameter")
ErrNoCode == Err1("No authorization code received")
ErrTimeout == Err1("Authentication timeout (5 minutes)")
ErrCancelled == Err1("Authentication cancelled by user")
ErrRateLimitExchange == Err1("Rate limit exceeded. Please wait before retrying.")
ErrRateLimitRefresh == Err1("Rate limit exceeded")
ErrInvalidUrl == Err1("Invalid URL")
ErrWrite == Err1("write failed")
ErrChmod == Err1("chmod failed")
ErrOAuth(e) == Err2("OAuth error", e)

\* a mutant of ExchangeResult: the error field of a 2xx body is not looked at
ExchangeResultIgnoreBodyError(resp) ==
    CASE resp.kind = "thrown" -> Failure(Err1("fetch failed"))
      [] resp.kind = "http_error" -> Failure(Err1("Token exchange failed"))
      [] OTHER ->
           [success |-> TRUE, accessToken |-> resp.access_token,
            refreshToken |-> resp.refresh_token, expiresIn |-> resp.expires_in,
            error |-> NoErr]

\* what exchangeCodeForTokens returns for a response of the token endpoint
ExchangeResult(resp) ==
    CASE resp.kind = "thrown" -> Failure(Err1("fetch failed"))
      [] resp.kind = "http_error" -> Failure(Err1("Token exchange failed"))
      [] Truthy(resp.error) -> Failure(ErrOAuth(resp.error))
      [] OTHER ->
           [success |-> TRUE, accessToken |-> resp.access_token,
            refreshToken |-> resp.refresh_token, expiresIn |-> resp.expires_in,
            error |-> NoErr]

(* Node primitives used by startCallbackServer *)

\* a mutant of ResolveValue: a later resolve replaces the settled value
ResolveValueOverwrite(isResolved, current, v) == v

\* resolve(v) of the promise: the first call settles it, later calls do nothing
ResolveValue(isResolved, current, v) == IF isResolved THEN current ELSE v

\* server.close(): closes the listening socket when there is one
CloseCount(open, closes) == IF open THEN closes + 1 ELSE closes

\* the observation of a step
Obs(ev, req, status, limiter, posted, recvState, ret) ==
    [ev |-> ev, req |-> req, status |-> status, limiter |-> limiter,
     posted |-> posted, recvState |-> recvState, ret |-> ret,
     resp |-> BadResponse("none")]
\* the observation of a step that handles an answer of the token endpoint
WithResp(o, resp) == [o EXCEPT !.resp = resp]
Quiet(ev) == Obs(ev, NoReq, 0, "none", FALSE, "n/a", NoResult)


----------------------------------------------------------------------------
(* Initial state: a fresh ServiceNowOAuth instance, no call made yet *)

InitInstance ==
    /\ now = StartTime
    /\ lastTokenRequest = 0
    /\ tokenRequestCount = 0
    /\ stateParameter = Undef
    /\ codeVerifier = Undef
    /\ codeChallenge = NoChallenge
    /\ pc = "idle"
    /\ flowKind = "none"
    /\ opts = NoOpts
    /\ normalizedInstance = <<>>
    /\ browserOpened = FALSE
    /\ authUrl = NoUrl
    /\ listenCalls = 0
    /\ serverOpen = FALSE
    /\ socketCloses = 0
    /\ timerArmed = FALSE
    /\ timerDeadline = 0
    /\ resolved = FALSE
    /\ result = NoResult
    /\ returned = NoResult
    /\ inflight = {}
    /\ reqCount = 0
    /\ callbackSeen = FALSE
    /\ refreshPending = {}
    /\ pendingSet = Absent
    /\ storeOps = {}
    /\ storeOut = NoOutcome
    /\ allowedLog = EmptyLog
    /\ last = Quiet("init")

Init == InitInstance /\ store = InitialStore /\ fileMode = InitialMode(store)

instanceVars == <<stateParameter, codeVerifier, codeChallenge>>
limiterVars == <<lastTokenRequest, tokenRequestCount>>
serverVars == <<listenCalls, serverOpen, socketCloses, timerArmed, timerDeadline>>
callVars == <<flowKind, opts, normalizedInstance, browserOpened, authUrl>>

(* Time passes: the clock moves to a later instant *)

\* to an instant of the model's horizon
TickWithin ==
    /\ \E t \in Instants :
          /\ t > now
          /\ now' = t
    /\ last' = Quiet("tick")
    /\ UNCHANGED <<limiterVars, instanceVars, pc, callVars, serverVars, resolved,
                   result, returned, inflight, reqCount, callbackSeen, refreshPending,
                   pendingSet, store, storeOps, storeOut,
                   fileMode, allowedLog>>

\* to the instant at which the pending timer is due
TickToDeadline ==
    /\ timerArmed
    /\ timerDeadline > now
    /\ now' = timerDeadline
    /\ last' = Quiet("tick")
    /\ UNCHANGED <<limiterVars, instanceVars, pc, callVars, serverVars, resolved,
                   result, returned, inflight, reqCount, callbackSeen, refreshPending,
                   pendingSet, store, storeOps, storeOut,
                   fileMode, allowedLog>>

Tick == TickWithin \/ TickToDeadline

(* Steps shared by the handlers *)

\* authenticate after its await has ended with value v: a successful result
\* with an access token is written with Auth.set, any other is returned
Continue(v) ==
    IF v.success /\ Truthy(v.accessToken)
    THEN /\ pc' = "saving"
         /\ pendingSet' =
              ServiceNowRecord(normalizedInstance, opts.clientId, opts.clientSecret,
                               v.accessToken, v.refreshToken,
                               ExpiresAt(now, v.expiresIn))
         /\ UNCHANGED returned
    ELSE /\ pc' = "returned"
         /\ returned' = v
         /\ UNCHANGED pendingSet

\* a mutant of CloseAndResolve: resolve(v) without the server.close() before it
CloseAndResolveNoClose(v) ==
    /\ UNCHANGED <<serverOpen, socketCloses>>
    /\ resolved' = TRUE
    /\ result' = ResolveValue(resolved, result, v)
    /\ IF resolved
       THEN UNCHANGED <<pc, returned, pendingSet>>
       ELSE Continue(ResolveValue(resolved, result, v))

\* server.close() followed by resolve(v) in startCallbackServer; the first
\* resolve wakes authenticate, which runs on in the same turn of the event loop
CloseAndResolve(v) ==
    /\ serverOpen' = FALSE
    /\ socketCloses' = CloseCount(serverOpen, socketCloses)
    /\ resolved' = TRUE
    /\ result' = ResolveValue(resolved, result, v)
    /\ IF resolved
       THEN UNCHANGED <<pc, returned, pendingSet>>
       ELSE Continue(ResolveValue(resolved, result, v))

(* authenticate of cli/cmd/attach.ts, up to its await of startCallbackServer *)

Authenticate(o) ==
    /\ pc = "idle"
    /\ flowKind' = "listener"
    /\ opts' = o
    /\ normalizedInstance' = normalizeInstanceUrl(o.instance)
    /\ LET v == validateClientSecret(o.clientSecret)
       IN  IF ~v.valid
           THEN /\ pc' = "returned"
                /\ returned' = Failure(v.reason)
                /\ last' = Obs("authenticate", NoReq, 0, "none", FALSE, "n/a",
                               Failure(v.reason))
                /\ UNCHANGED <<instanceVars, browserOpened, authUrl, serverVars>>
           ELSE /\ \E st \in States : stateParameter' = st
                /\ \E ver \in Verifiers :
                      /\ codeVerifier' = ver
                      /\ codeChallenge' = Sha256B64(ver)
                /\ authUrl' = generateAuthUrl(o.clientId, stateParameter',
                                              codeChallenge')
                /\ browserOpened' = TRUE
                /\ listenCalls' = listenCalls + 1
                /\ serverOpen' = TRUE
                /\ timerArmed' = TRUE
                /\ timerDeadline' = now + CALLBACK_TIMEOUT_MS
                /\ pc' = "waiting"
                /\ last' = Quiet("authenticate")
                /\ UNCHANGED <<returned, socketCloses>>
    /\ UNCHANGED <<now, limiterVars, resolved, result, inflight, reqCount, callbackSeen,
                   refreshPending, pendingSet, store, storeOps, storeOut,
                   fileMode, allowedLog>>

\* authenticate when port 3005 is bound by another listener: server.listen
\* fails and the server emits 'error', for which the code registers no
\* handler.  Either the unhandled 'error' event ends the process, or the
\* process survives it and the promise of startCallbackServer stays pending
\* until the timer fires.
ListenFailures == {"process_ends", "stays_pending"}

AuthenticatePortBusy(o, failure) ==
    /\ pc = "idle"
    /\ validateClientSecret(o.clientSecret).valid
    /\ flowKind' = "listener"
    /\ opts' = o
    /\ normalizedInstance' = normalizeInstanceUrl(o.instance)
    /\ \E st \in States : stateParameter' = st
    /\ \E ver \in Verifiers :
          /\ codeVerifier' = ver
          /\ codeChallenge' = Sha256B64(ver)
    /\ authUrl' = generateAuthUrl(o.clientId, stateParameter', codeChallenge')
    /\ browserOpened' = TRUE
    /\ listenCalls' = listenCalls + 1
    /\ timerDeadline' = now + CALLBACK_TIMEOUT_MS
    /\ IF failure = "process_ends"
       THEN pc' = "crashed" /\ timerArmed' = FALSE
       ELSE pc' = "waiting" /\ timerArmed' = TRUE
    /\ last' = Quiet("authenticate")
    /\ UNCHANGED <<now, limiterVars, serverOpen, socketCloses, resolved, result,
                   returned, inflight, reqCount, callbackSeen, refreshPending,
                   pendingSet, store, storeOps, storeOut, fileMode,
                   allowedLog>>

(* The request handler of the callback server *)

\* a mutant of CallbackBranch: the error parameter is looked at first
CallbackBranchErrorFirst(req, issued) ==
    IF ~Parses(req.target) THEN "exception"
    ELSE IF req.target # "/callback" THEN "notfound"
    ELSE IF Truthy(req.error) THEN "oautherror"
    ELSE IF req.state # issued THEN "badstate"
    ELSE IF ~Truthy(req.code) THEN "nocode"
    ELSE "exchange"

\* a mutant of CallbackBranch: a request that has a code is exchanged whatever
\* its error parameter
CallbackBranchCodeFirst(req, issued) ==
    IF ~Parses(req.target) THEN "exception"
    ELSE IF req.target # "/callback" THEN "notfound"
    ELSE IF req.state # issued THEN "badstate"
    ELSE IF Truthy(req.code) THEN "exchange"
    ELSE IF Truthy(req.error) THEN "oautherror"
    ELSE "nocode"

\* a mutant of CallbackBranch: a callback without a code is exchanged
CallbackBranchNoCodeCheck(req, issued) ==
    IF ~Parses(req.target) THEN "exception"
    ELSE IF req.target # "/callback" THEN "notfound"
    ELSE IF req.state # issued THEN "badstate"
    ELSE IF Truthy(req.error) THEN "oautherror"
    ELSE "exchange"

\* the branch the handler takes for a request, issued being this.stateParameter
CallbackBranch(req, issued) ==
    IF ~Parses(req.target) THEN "exception"
    ELSE IF req.target # "/callback" THEN "notfound"
    ELSE IF req.state # issued THEN "badstate"
    ELSE IF Truthy(req.error) THEN "oautherror"
    ELSE IF ~Truthy(req.code) THEN "nocode"
    ELSE "exchange"

\* a request arrives: the handler runs to its end, or to its await of fetch
OnRequest(req) ==
    /\ serverOpen
    /\ reqCount < MaxRequests
    /\ reqCount' = reqCount + 1
    /\ callbackSeen' = (callbackSeen \/ (Parses(req.target) /\ req.target = "/callback"))
    /\ LET branch == CallbackBranch(req, stateParameter)
           lim == checkTokenRequestRateLimit(now, lastTokenRequest, tokenRequestCount)
       IN  CASE branch = "notfound" ->
                  /\ last' = Obs("request", req, 404, "none", FALSE, "n/a", NoResult)
                  /\ UNCHANGED <<limiterVars, serverOpen, socketCloses, resolved,
                                 result, pc, returned, pendingSet, inflight>>
             [] branch = "exception" ->
                  /\ CloseAndResolve(Failure(ErrInvalidUrl))
                  /\ last' = Obs("request", req, 500, "none", FALSE, "n/a", NoResult)
                  /\ UNCHANGED <<limiterVars, inflight>>
             [] branch = "badstate" ->
                  /\ CloseAndResolve(Failure(ErrInvalidState))
                  /\ last' = Obs("request", req, 400, "none", FALSE, "n/a", NoResult)
                  /\ UNCHANGED <<limiterVars, inflight>>
             [] branch = "oautherror" ->
                  /\ CloseAndResolve(Failure(ErrOAuth(req.error)))
                  /\ last' = Obs("request", req, 400, "none", FALSE, "n/a", NoResult)
                  /\ UNCHANGED <<limiterVars, inflight>>
             [] branch = "nocode" ->
                  /\ CloseAndResolve(Failure(ErrNoCode))
                  /\ last' = Obs("request", req, 400, "none", FALSE, "n/a", NoResult)
                  /\ UNCHANGED <<limiterVars, inflight>>
             [] branch = "exchange" ->
                  /\ lastTokenRequest' = lim.lastTokenRequest
                  /\ tokenRequestCount' = lim.tokenRequestCount
                  /\ IF TokenCallProceeds(lim.allowed)
                     THEN /\ inflight' = inflight \cup
                                 {[id |-> reqCount + 1, code |-> req.code,
                                   code_verifier |-> codeVerifier]}
                          /\ last' = Obs("request", req, 0,
                                         LimiterLabel(lim.allowed), TRUE,
                                         req.state, NoResult)
                          /\ UNCHANGED <<serverOpen, socketCloses, resolved, result,
                                         pc, returned, pendingSet>>
                     ELSE /\ CloseAndResolve(Failure(ErrRateLimitExchange))
                          /\ last' = Obs("request", req, 500,
                                         LimiterLabel(lim.allowed), FALSE,
                                         req.state, NoResult)
                          /\ UNCHANGED inflight
    /\ UNCHANGED <<now, instanceVars, callVars, listenCalls, timerArmed,
                   timerDeadline, refreshPending, store, storeOps, storeOut,
                   fileMode, allowedLog>>

\* the token endpoint answers a handler's exchange: the handler sends its page,
\* closes the server and resolves
ExchangeResponse(h, resp) ==
    /\ flowKind = "listener"
    /\ h \in inflight
    /\ inflight' = inflight \ {h}
    /\ LET tokenResult == ExchangeResult(resp)
       IN  /\ CloseAndResolve(tokenResult)
           /\ last' = WithResp(Obs("exchange_response", NoReq,
                                   IF tokenResult.success THEN 200 ELSE 500,
                                   "none", FALSE, "n/a", tokenResult), resp)
    /\ UNCHANGED <<now, limiterVars, instanceVars, callVars, listenCalls,
                   timerArmed, timerDeadline, reqCount, callbackSeen,
                   refreshPending, store, storeOps, storeOut,
                   fileMode, allowedLog>>

\* the 5-minute timer fires
TimerFire ==
    /\ timerArmed
    /\ now >= timerDeadline
    /\ timerArmed' = FALSE
    /\ CloseAndResolve(Failure(ErrTimeout))
    /\ last' = Quiet("timeout")
    /\ UNCHANGED <<now, limiterVars, instanceVars, callVars, listenCalls,
                   timerDeadline, inflight, reqCount, callbackSeen,
                   refreshPending, store, storeOps, storeOut,
                   fileMode, allowedLog>>

\* a mutant of CaughtResult: the error of Auth.set is swallowed
CaughtResultSwallowed(outcome, res) == res

\* try { await Auth.set(...); return result } catch (error) { return {success:
\* false, error: errorMessage} }
CaughtResult(outcome, res) ==
    CASE outcome = "write_failed" -> Failure(ErrWrite)
      [] outcome = "chmod_failed" -> Failure(ErrChmod)
      [] OTHER -> res

\* Auth.set of authenticate ends: the file is written and its mode set, or
\* Bun.write or fs.chmod throws and the catch of authenticate returns the error
AuthSetDone(outcome) ==
    /\ pc = "saving"
    /\ pc' = "returned"
    /\ store' = IF outcome = "write_failed"
                THEN store
                ELSE WriteFile(AuthSet(AuthAll(store).data, "servicenow",
                                       pendingSet))
    /\ \E cm \in CreateModes :
          fileMode' = FileModeAfter(store, fileMode, outcome, cm)
    /\ returned' = CaughtResult(outcome, result)
    /\ pendingSet' = Absent
    /\ UNCHANGED allowedLog
    /\ last' = Quiet(CASE outcome = "write_failed" -> "auth_set_failed"
                       [] outcome = "chmod_failed" -> "auth_set_chmod_failed"
                       [] OTHER -> "auth_set")
    /\ UNCHANGED <<storeOps, storeOut>>
    /\ UNCHANGED <<now, limiterVars, instanceVars, callVars, serverVars, resolved,
                   result, inflight, reqCount, callbackSeen, refreshPending>>


(* authenticate of auth/servicenow-oauth.ts: the code-paste flow *)

\* up to its await of the code prompt
AuthenticatePaste(o) ==
    /\ pc = "idle"
    /\ flowKind' = "paste"
    /\ opts' = o
    /\ normalizedInstance' = normalizeInstanceUrl(o.instance)
    /\ LET v == validateClientSecret(o.clientSecret)
       IN  IF ~v.valid
           THEN /\ pc' = "returned"
                /\ returned' = Failure(v.reason)
                /\ last' = Obs("authenticate", NoReq, 0, "none", FALSE, "n/a",
                               Failure(v.reason))
                /\ UNCHANGED <<instanceVars, authUrl>>
           ELSE /\ \E st \in States : stateParameter' = st
                /\ \E ver \in Verifiers :
                      /\ codeVerifier' = ver
                      /\ codeChallenge' = Sha256B64(ver)
                /\ authUrl' = generateAuthUrl(o.clientId, stateParameter',
                                              codeChallenge')
                /\ pc' = "prompt"
                /\ last' = Quiet("authenticate")
                /\ UNCHANGED returned
    /\ UNCHANGED <<now, limiterVars, browserOpened, serverVars, resolved, result,
                   inflight, reqCount, callbackSeen, refreshPending,
                   pendingSet, store, storeOps, storeOut,
                   fileMode, allowedLog>>

\* a mutant of PasteBranch: a cancelled prompt is treated as a text
PasteBranchIgnoreCancel(inp) == "exchange"

\* if (prompts.isCancel(authCode)) return {success: false, ...}
PasteBranch(inp) == IF inp.cancel THEN "cancel" ELSE "exchange"

\* the answer to the prompt, as recorded in the observation of a step
PasteReq(inp) ==
    [target |-> IF inp.cancel THEN "cancel" ELSE "paste", state |-> inp.state,
     code |-> inp.code, error |-> Undef]

\* the user answers the prompt: a cancel returns; a text has its code taken
\* out and exchanged, and the state that came with it is not looked at
PasteInput(inp) ==
    /\ pc = "prompt"
    /\ IF PasteBranch(inp) = "cancel"
       THEN /\ pc' = "returned"
            /\ returned' = Failure(ErrCancelled)
            /\ last' = Obs("paste_cancel", PasteReq(inp), 0, "none", FALSE,
                           "n/a", Failure(ErrCancelled))
            /\ UNCHANGED <<limiterVars, inflight, result, pendingSet>>
       ELSE LET lim == checkTokenRequestRateLimit(now, lastTokenRequest,
                                                  tokenRequestCount)
            IN  /\ lastTokenRequest' = lim.lastTokenRequest
                /\ tokenRequestCount' = lim.tokenRequestCount
                /\ IF TokenCallProceeds(lim.allowed)
                   THEN /\ pc' = "exchanging"
                        /\ inflight' = {[id |-> 0, code |-> inp.code,
                                          code_verifier |-> codeVerifier]}
                        /\ last' = Obs("paste", PasteReq(inp), 0,
                                       LimiterLabel(lim.allowed), TRUE,
                                       inp.state, NoResult)
                        /\ UNCHANGED <<returned, result, pendingSet>>
                   ELSE /\ result' = Failure(ErrRateLimitExchange)
                        /\ Continue(Failure(ErrRateLimitExchange))
                        /\ last' = Obs("paste", PasteReq(inp), 0,
                                       LimiterLabel(lim.allowed), FALSE,
                                       inp.state, NoResult)
                        /\ UNCHANGED inflight
    /\ UNCHANGED <<now, instanceVars, callVars, serverVars, resolved, reqCount, callbackSeen,
                   refreshPending, store, storeOps, storeOut,
                   fileMode, allowedLog>>

\* the token endpoint answers the exchange of the code-paste flow
PasteExchangeResponse(h, resp) ==
    /\ pc = "exchanging"
    /\ h \in inflight
    /\ inflight' = inflight \ {h}
    /\ LET tokenResult == ExchangeResult(resp)
       IN  /\ result' = tokenResult
           /\ Continue(tokenResult)
           /\ last' = WithResp(Obs("exchange_response", NoReq, 0, "none",
                                   FALSE, "n/a", tokenResult), resp)
    /\ UNCHANGED <<now, limiterVars, instanceVars, callVars, serverVars, resolved,
                   reqCount, callbackSeen, refreshPending, store, storeOps,
                   storeOut, fileMode, allowedLog>>

(* refreshAccessToken (the same code in both classes) *)

\* up to its await of fetch, or to its return when the rate limiter denies
RefreshCall(rt) ==
    /\ Cardinality(refreshPending) < MaxRefreshPending
    /\ LET lim == checkTokenRequestRateLimit(now, lastTokenRequest, tokenRequestCount)
       IN  /\ lastTokenRequest' = lim.lastTokenRequest
           /\ tokenRequestCount' = lim.tokenRequestCount
           /\ IF TokenCallProceeds(lim.allowed)
              THEN /\ refreshPending' = refreshPending \cup {[refreshToken |-> rt]}
                   /\ last' = Obs("refresh_call", NoReq, 0,
                                  LimiterLabel(lim.allowed), TRUE, "n/a", NoResult)
              ELSE /\ UNCHANGED refreshPending
                   /\ last' = Obs("refresh_call", NoReq, 0,
                                  LimiterLabel(lim.allowed), FALSE, "n/a",
                                  Failure(ErrRateLimitRefresh))
    /\ UNCHANGED <<now, instanceVars, pc, callVars, serverVars, resolved, result,
                   returned, inflight, reqCount, callbackSeen, pendingSet,
                   store, storeOps, storeOut,
                   fileMode, allowedLog>>

\* what refreshAccessToken returns for a response that it could store
RefreshResult(resp, rt) ==
    [success |-> TRUE, accessToken |-> resp.access_token,
     refreshToken |-> IF Truthy(resp.refresh_token) THEN resp.refresh_token ELSE rt,
     expiresIn |-> resp.expires_in, error |-> NoErr]

\* the token endpoint answers a refresh: a good answer is stored with Auth.set
\* and returned; a failed write or chmod is caught and returned as a failure
RefreshResponse(p, resp, outcome) ==
    /\ p \in refreshPending
    /\ refreshPending' = refreshPending \ {p}
    /\ CASE resp.kind = "thrown" ->
              /\ last' = Obs("refresh_response", NoReq, 0, "none", FALSE, "n/a",
                             Failure(Err1("fetch failed")))
              /\ UNCHANGED <<store, fileMode>>
         [] resp.kind = "http_error" ->
              /\ last' = Obs("refresh_response", NoReq, 0, "none", FALSE, "n/a",
                             Failure(Err1("Token refresh failed")))
              /\ UNCHANGED <<store, fileMode>>
         [] Truthy(resp.error) ->
              /\ last' = Obs("refresh_response", NoReq, 0, "none", FALSE, "n/a",
                             Failure(ErrOAuth(resp.error)))
              /\ UNCHANGED <<store, fileMode>>
         [] OTHER ->
              LET r == RefreshResult(resp, p.refreshToken)
              IN  /\ store' =
                        IF outcome = "write_failed"
                        THEN store
                        ELSE WriteFile(AuthSet(AuthAll(store).data, "servicenow",
                                 ServiceNowRecord(RefreshInstance, "cid1",
                                     GoodSecret, resp.access_token,
                                     r.refreshToken,
                                     ExpiresAt(now, resp.expires_in))))
                  /\ \E cm \in CreateModes :
                        fileMode' = FileModeAfter(store, fileMode, outcome, cm)
                  /\ last' = Obs(CASE outcome = "write_failed" ->
                                          "refresh_write_failed"
                                    [] outcome = "chmod_failed" ->
                                          "refresh_chmod_failed"
                                    [] OTHER -> "refresh_response",
                                 NoReq, 0, "none", FALSE, "n/a",
                                 CaughtResult(outcome, r))
    /\ UNCHANGED <<now, limiterVars, instanceVars, pc, callVars, serverVars,
                   resolved, result, returned, inflight, reqCount, callbackSeen,
                   pendingSet, storeOps, storeOut, allowedLog>>

----------------------------------------------------------------------------

(* The authentication flows: every input the environment can send *)

Next ==
    \/ Tick
    \/ \E o \in AuthOptions : Authenticate(o)
    \/ \E o \in AuthOptions, f \in ListenFailures : AuthenticatePortBusy(o, f)
    \/ \E req \in Requests : OnRequest(req)
    \/ \E h \in inflight, resp \in TokenResponses : ExchangeResponse(h, resp)
    \/ TimerFire
    \/ \E out \in WriteOutcomes : AuthSetDone(out)
    \/ \E o \in AuthOptions : AuthenticatePaste(o)
    \/ \E inp \in PasteInputs : PasteInput(inp)
    \/ \E h \in inflight, resp \in TokenResponses : PasteExchangeResponse(h, resp)

Spec == Init /\ [][Next]_vars

(* The token client of one instance of the class of attach.ts, watched for  *)
(* less than the five minutes of the callback timeout: the browser flow     *)
(* with an accepted secret and well-formed callbacks, next to any number of *)
(* refreshAccessToken calls                                                 *)

GoodOptions ==
    {o \in AuthOptions : /\ validateClientSecret(o.clientSecret).valid
                          /\ o.instance = <<"dev12345">>}
GoodRequests ==
    {r \in Requests : r.target = "/callback" /\ r.state \in States
                        /\ Truthy(r.code) /\ r.error = Undef}
\* the token endpoint answers with tokens, or with a non-2xx status
PlainResponses ==
    {r \in TokenResponses :
        \/ r.kind = "http_error"
        \/ /\ r.kind = "ok" /\ r.error = Undef
           /\ Truthy(r.access_token) /\ Truthy(r.refresh_token)}

NextTokens ==
    \/ TickWithin
    \/ \E o \in GoodOptions : Authenticate(o)
    \/ \E req \in GoodRequests : OnRequest(req)
    \/ \E h \in inflight, resp \in PlainResponses : ExchangeResponse(h, resp)
    \/ \E out \in WriteOutcomes : AuthSetDone(out)
    \/ \E rt \in RefreshTokens : RefreshCall(rt)
    \/ \E p \in refreshPending, resp \in PlainResponses, out \in WriteOutcomes :
          RefreshResponse(p, resp, out)

SpecTokens == Init /\ [][NextTokens]_vars

(* An instance on which authenticate is called again while its first call *)
(* is still waiting for the callback or for the pasted code                *)

\* the second call up to its await: it validates the secret, assigns a new
\* state and a new PKCE pair to the fields of the instance and, in the
\* listener class, calls server.listen on port 3005, which the server of the
\* first call holds: the unhandled 'error' event ends the process, and with
\* it the server and the requests in flight, or the process survives it and
\* the second call stays pending on its own promise.
\* opts, normalizedInstance and authUrl are locals of the first call.
AuthenticateAgain(o, failure) ==
    /\ pc \in {"waiting", "prompt"}
    /\ ~resolved
    /\ validateClientSecret(o.clientSecret).valid
    /\ \E st \in FreshStates : stateParameter' = st
    /\ \E ver \in Verifiers :
          /\ codeVerifier' = ver
          /\ codeChallenge' = Sha256B64(ver)
    /\ IF flowKind = "listener"
       THEN /\ listenCalls < MaxCalls
            /\ listenCalls' = listenCalls + 1
            /\ IF failure = "process_ends"
               THEN /\ pc' = "crashed"
                    /\ timerArmed' = FALSE
                    /\ serverOpen' = FALSE
                    /\ inflight' = {}
               ELSE UNCHANGED <<pc, timerArmed, serverOpen, inflight>>
       ELSE UNCHANGED <<listenCalls, pc, timerArmed, serverOpen, inflight>>
    /\ last' = Quiet("authenticate_again")
    /\ UNCHANGED <<now, limiterVars, callVars, socketCloses, timerDeadline,
                   resolved, result, returned, reqCount, callbackSeen,
                   refreshPending, pendingSet, store, storeOps, storeOut,
                   fileMode, allowedLog>>

NextReentrant ==
    \/ Next
    \/ \E o \in AuthOptions, f \in ListenFailures : AuthenticateAgain(o, f)

SpecReentrant == Init /\ [][NextReentrant]_vars

(* The rate limiter alone: checkTokenRequestRateLimit called at the instants *)
(* of three windows, any number of times at each                            *)

\* the clock moves to a later instant
TickLimiter ==
    /\ \E t \in LimiterInstants :
          /\ t > now
          /\ now' = t
    /\ last' = Quiet("tick")
    /\ UNCHANGED <<limiterVars, instanceVars, pc, callVars, serverVars, resolved,
                   result, returned, inflight, reqCount, callbackSeen,
                   refreshPending, pendingSet, store, storeOps, storeOut,
                   fileMode, allowedLog>>

\* one call of checkTokenRequestRateLimit; an allowed check is logged at its
\* instant
LimiterCheck ==
    /\ allowedLog[now] < MaxAllowedAtOnce
    /\ LET lim == checkTokenRequestRateLimit(now, lastTokenRequest,
                                              tokenRequestCount)
       IN  /\ lastTokenRequest' = lim.lastTokenRequest
           /\ tokenRequestCount' = lim.tokenRequestCount
           /\ allowedLog' = IF lim.allowed
                            THEN [allowedLog EXCEPT ![now] = @ + 1]
                            ELSE allowedLog
           /\ last' = Obs("limiter_check", NoReq, 0, LimiterLabel(lim.allowed),
                          FALSE, "n/a", NoResult)
    /\ UNCHANGED <<now, instanceVars, pc, callVars, serverVars, resolved, result,
                   returned, inflight, reqCount, callbackSeen, refreshPending,
                   pendingSet, store, storeOps, storeOut, fileMode>>

NextLimiter == TickLimiter \/ LimiterCheck

SpecLimiter == Init /\ [][NextLimiter]_vars

(* refreshAccessToken alone, with every answer of the token endpoint *)

NextRefresh ==
    \/ TickWithin
    \/ \E rt \in RefreshTokens : RefreshCall(rt)
    \/ \E p \in refreshPending, resp \in TokenResponses, out \in WriteOutcomes :
          RefreshResponse(p, resp, out)

SpecRefresh == Init /\ [][NextRefresh]_vars

(* The credential store: the functions of the Auth namespace, called by any *)
(* number of callers, on any content of auth.json.  A call of set or remove *)
(* reads the file, awaits, and then replaces the file in one Bun.write;     *)
(* other calls run between its read and its write.                          *)

\* the records the callers store
StoreInfos ==
    { ServiceNowRecord(RefreshInstance, "cid1", GoodSecret, "AT1", "RT1",
                       StartTime + 1800000),
      ServiceNowRecord(RefreshInstance, "cid1", GoodSecret, "AT2", Undef, NoNum),
      [type |-> "api", key |-> "sk-2"] }
\* the Auth.set calls they make
StoreWrites ==
    { w \in [key : Keys, info : StoreInfos] :
          (w.key = "servicenow") <=> (w.info.type = "servicenow-oauth") }
\* what auth.json is when the first call is made
InitialFiles ==
    { FileMissing, FileCorrupt, FileNull, InitialStore,
      WriteFile(AuthSet(InitialStore.data, "servicenow",
                        ServiceNowRecord(RefreshInstance, "cid1", GoodSecret,
                                         "AT0", "RT0", StartTime))) }

InitStore ==
    InitInstance /\ store \in InitialFiles /\ fileMode = InitialMode(store)

flowVars == <<now, limiterVars, instanceVars, pc, callVars, serverVars, resolved,
              result, returned, inflight, reqCount, callbackSeen, refreshPending,
              pendingSet, last, allowedLog>>

\* an identifier for a new call
FreeId == CHOOSE i \in 1..MaxStoreOps : \A c \in storeOps : c.id # i
\* a mutant of DataAtWrite: the file is read again when it is written
DataAtWriteReread(read, current) == current

\* const data = await all(): the object a call merges its key into and writes
\* is the one it read, whatever the file has become since
DataAtWrite(read, current) == read

\* a caller may make one more call
MayCall == storeOut.n + Cardinality(storeOps) < MaxStoreCalls
\* the keys whose content in the file is not what the call c read
ChangedSince(c) == {k \in Keys : AuthAll(store).data[k] # c.snap.data[k]}

\* Auth.get(key)
AuthGetCall(key) ==
    /\ MayCall
    /\ storeOut' = Outcome("get", 0, key,
                           IF AuthGet(store, key).threw THEN "TypeError" ELSE "none",
                           FALSE, AuthGet(store, key).value, Absent, store.kind, {},
                           Prior(storeOut), storeOut.n + 1)
    /\ UNCHANGED <<flowVars, store, storeOps, fileMode>>

\* Auth.all()
AuthAllCall ==
    /\ MayCall
    /\ storeOut' = Outcome("all", 0, "none", "none", FALSE, AuthAll(store), Absent,
                           store.kind, {}, Prior(storeOut), storeOut.n + 1)
    /\ UNCHANGED <<flowVars, store, storeOps, fileMode>>

\* Auth.set(key, info) up to the end of its await all()
AuthSetRead(key, info) ==
    /\ MayCall
    /\ Cardinality(storeOps) < MaxStoreOps
    /\ storeOps' = storeOps \cup
          {[id |-> FreeId, op |-> "set", key |-> key, info |-> info,
            snap |-> AuthAll(store), beforeKind |-> store.kind]}
    /\ UNCHANGED <<flowVars, store, storeOut, fileMode>>

\* Auth.set from its Bun.write on: the write fails, or the file is replaced
\* and chmod fails, or both succeed
AuthSetWrite(c, outcome) ==
    /\ c \in storeOps
    /\ c.op = "set"
    /\ storeOps' = storeOps \ {c}
    /\ store' = IF outcome = "write_failed"
                THEN store
                ELSE WriteFile(AuthSet(DataAtWrite(c.snap.data, AuthAll(store).data),
                                       c.key, c.info))
    /\ storeOut' = Outcome("set", c.id, c.key, ErrorOf(outcome),
                           outcome # "write_failed", Absent, c.info, c.beforeKind,
                           ChangedSince(c), Prior(storeOut), storeOut.n + 1)
    /\ \E cm \in CreateModes :
          fileMode' = FileModeAfter(store, fileMode, outcome, cm)
    /\ UNCHANGED flowVars

\* Auth.remove(key) up to the end of its await all()
AuthRemoveRead(key) ==
    /\ MayCall
    /\ Cardinality(storeOps) < MaxStoreOps
    /\ storeOps' = storeOps \cup
          {[id |-> FreeId, op |-> "remove", key |-> key, info |-> Absent,
            snap |-> AuthAll(store), beforeKind |-> store.kind]}
    /\ UNCHANGED <<flowVars, store, storeOut, fileMode>>

\* Auth.remove from its delete on: delete data[key] throws when data is null
AuthRemoveWrite(c, outcome) ==
    /\ c \in storeOps
    /\ c.op = "remove"
    /\ storeOps' = storeOps \ {c}
    /\ IF c.snap.isNull
       THEN /\ UNCHANGED store
            /\ storeOut' = Outcome("remove", c.id, c.key, "TypeError", FALSE, Absent,
                                   Absent, c.beforeKind, ChangedSince(c),
                                   Prior(storeOut), storeOut.n + 1)
            /\ UNCHANGED fileMode
       ELSE /\ store' = IF outcome = "write_failed"
                        THEN store
                        ELSE WriteFile(AuthRemove(
                                 DataAtWrite(c.snap.data, AuthAll(store).data),
                                 c.key))
            /\ storeOut' = Outcome("remove", c.id, c.key, ErrorOf(outcome),
                                   outcome # "write_failed", Absent, Absent,
                                   c.beforeKind, ChangedSince(c), Prior(storeOut),
                                   storeOut.n + 1)
            /\ \E cm \in CreateModes :
                  fileMode' = FileModeAfter(store, fileMode, outcome, cm)
    /\ UNCHANGED flowVars

NextStore ==
    \/ \E k \in Keys : AuthGetCall(k)
    \/ AuthAllCall
    \/ \E w \in StoreWrites : AuthSetRead(w.key, w.info)
    \/ \E c \in storeOps, o \in WriteOutcomes : AuthSetWrite(c, o)
    \/ \E k \in Keys : AuthRemoveRead(k)
    \/ \E c \in storeOps, o \in WriteOutcomes : AuthRemoveWrite(c, o)

SpecStore == InitStore /\ [][NextStore]_vars

----------------------------------------------------------------------------
(* Properties *)

\* the step just taken was the handling of a request to /callback
CallbackHandled == last.ev = "request" /\ last.req.target = "/callback"
\* the handler of the request just handled awaits the token endpoint
ExchangedForLast == \E h \in inflight : h.id = reqCount

\* C1: a request to /callback whose state parameter is absent or is not the
\* issued state is answered 400 and resolves the flow with 'Invalid state
\* parameter', whatever its code and error, and no token exchange is called
\* for it
C1_BadStateRejected ==
    (CallbackHandled /\ last.req.state # stateParameter)
        => /\ last.status = 400
           /\ resolved
           /\ result = Failure(ErrInvalidState)
           /\ last.limiter = "none"
           /\ ~last.posted
           /\ ~ExchangedForLast

\* C1, its case: a forged state with a code, and with an error parameter
C1_Witness ==
    /\ CallbackHandled
    /\ last.req.state = "forged"
    /\ last.req.code = "abc123"
    /\ last.req.error = "access_denied"
    /\ last.status = 400
    /\ result = Failure(ErrInvalidState)

\* C2: in both flows, whenever the token exchange is called, the state that
\* came with the authorization code is the state issued for the flow
C2_StateCheckedBeforeExchange ==
    (last.ev \in {"request", "paste"} /\ last.limiter # "none")
        => last.recvState = stateParameter

\* C3: when a well-formed callback has been received before the timeout
\* fires, the flow does not resolve as a timeout: no flow is resolved as a
\* timeout while a handler that received such a callback awaits its exchange
C3_ValidCallbackDecides ==
    (resolved /\ result = Failure(ErrTimeout)) => inflight = {}

\* C4: the timer firing on a flow that a callback has already resolved changes
\* neither the flow's result nor what authenticate does with it, and closes no
\* socket again
C4_LateTimeoutHarmless ==
    [][(timerArmed /\ ~timerArmed' /\ resolved)
          => /\ result' = result
             /\ resolved'
             /\ socketCloses' = socketCloses
             /\ serverOpen' = serverOpen
             /\ pc' = pc
             /\ returned' = returned
             /\ pendingSet' = pendingSet
             /\ store' = store]_vars

\* C4, its case: the timer has fired on a flow resolved by a callback
C4_Witness ==
    /\ last.ev = "timeout"
    /\ resolved
    /\ result = Failure(ErrInvalidState)
    /\ socketCloses = 1

\* C5: a resolved flow has neither an armed timer nor an open listener
C5_LoserReleased == resolved => (~timerArmed /\ ~serverOpen)

\* C6: a request to a path other than /callback is answered 404 and changes
\* nothing else: listener, timer, resolution, token calls and store
C6_OtherPathIgnored ==
    [][(reqCount' = reqCount + 1 /\ last'.req.target # "/callback")
          => /\ last'.status = 404
             /\ UNCHANGED <<serverOpen, socketCloses, timerArmed, timerDeadline,
                            resolved, result, pc, returned, inflight,
                            lastTokenRequest, tokenRequestCount, pendingSet,
                            store>>]_vars

\* C7 as claimed: a callback with the issued state and an error parameter is
\* answered 400 and resolves the flow with that error; no exchange is called
C7_ErrorParamRejected ==
    (CallbackHandled /\ last.req.state = stateParameter /\ last.req.error # Undef)
        => /\ last.status = 400
           /\ result = Failure(ErrOAuth(last.req.error))
           /\ last.limiter = "none"
           /\ ~last.posted
           /\ ~ExchangedForLast

\* C7 as amended: a callback with the issued state and a non-empty error
\* parameter is answered 400 and resolves the flow with that error; no
\* exchange is called for it, even when it has a code
C7_NonEmptyErrorRejected ==
    (CallbackHandled /\ last.req.state = stateParameter
        /\ last.req.error # Undef /\ last.req.error # "")
        => /\ last.status = 400
           /\ resolved
           /\ result = Failure(ErrOAuth(last.req.error))
           /\ last.limiter = "none"
           /\ ~last.posted
           /\ ~ExchangedForLast

\* C7, its case: error=access_denied together with a code
C7_Witness ==
    /\ CallbackHandled
    /\ last.req.state = stateParameter
    /\ last.req.error = "access_denied"
    /\ last.req.code = "abc123"
    /\ last.status = 400
    /\ tokenRequestCount = 0

\* C8: a flow that has resolved without any request to /callback has resolved
\* as a timeout, with its listener closed
C8_TimeoutWithoutCallback ==
    (resolved /\ ~callbackSeen)
        => (result = Failure(ErrTimeout) /\ ~serverOpen)

\* a secret that must not pass: blank, shorter than 32, or holding a word of
\* the deny-list in any letter case
WeakWords ==
    { <<"p","a","s","s","w","o","r","d">>, <<"a","d","m","i","n">>,
      <<"s","e","c","r","e","t">>, <<"c","l","i","e","n","t">>, <<"s","n","o","w">> }
SecretMustFail(s) ==
    \/ Len(s) < 32
    \/ \A i \in 1..Len(s) : s[i] \in {" ", "\t"}
    \/ \E w \in WeakWords : \E i \in 1..Len(s) :
          /\ i + Len(w) - 1 <= Len(s)
          /\ \A j \in 1..Len(w) : LowerOf(s[i + j - 1]) = w[j]

\* C9: an authenticate call with a secret that fails validation returns a
\* failure carrying the reason, and nothing else has happened: no state or
\* PKCE pair, no browser, no listener, no token request, no rate-limiter
\* increment, no store write
C9_WeakSecretAborts ==
    [][(pc = "idle" /\ pc' # "idle" /\ SecretMustFail(opts'.clientSecret))
          => /\ pc' = "returned"
             /\ ~returned'.success
             /\ returned'.error \in {ReasonRequired, ReasonTooShort, ReasonCommon}
             /\ UNCHANGED <<stateParameter, codeVerifier, codeChallenge,
                            browserOpened, listenCalls, serverOpen, timerArmed,
                            inflight, lastTokenRequest, tokenRequestCount,
                            pendingSet, store, resolved>>]_vars

\* C9, its case: the secret "short" has been refused by the browser flow
C9_Witness ==
    /\ pc = "returned"
    /\ flowKind = "listener"
    /\ opts.clientSecret = <<"s","h","o","r","t">>
    /\ returned = Failure(ReasonTooShort)
    /\ listenCalls = 0
    /\ ~browserOpened

\* C10: exchange and refresh calls count against one counter: a call made
\* when 10 calls have been allowed in the running window (60000 ms from its
\* start, inclusive) is denied with a rate-limit error and sends nothing; a
\* call made after the window has elapsed is allowed; so is a call in a window
\* with fewer than 10 allowed calls
C10_SharedWindowLimit ==
    [][(last'.limiter # "none")
          => LET inWindow == now - lastTokenRequest <= 60000
             IN  /\ (inWindow /\ tokenRequestCount >= 10)
                    => /\ last'.limiter = "denied"
                       /\ ~last'.posted
                       /\ inflight' = inflight
                       /\ refreshPending' = refreshPending
                       /\ last'.ev = "refresh_call"
                            => last'.ret = Failure(ErrRateLimitRefresh)
                       /\ last'.ev = "request"
                            => result' = Failure(ErrRateLimitExchange)
                 /\ (inWindow /\ tokenRequestCount < 10)
                    => (last'.limiter = "allowed" /\ last'.posted)
                 /\ ~inWindow
                    => (last'.limiter = "allowed" /\ last'.posted)]_vars

\* C10, its case: ten calls were allowed in the window, refreshes among them,
\* and the exchange of a callback has been denied
C10_Witness ==
    /\ last.ev = "request"
    /\ last.limiter = "denied"
    /\ tokenRequestCount = 10
    /\ result = Failure(ErrRateLimitExchange)

\* C11: every request to the token endpoint, for an authorization code or for
\* a refresh, is sent by a call whose rate-limiter check returned true, and a
\* call whose check returned false sends none and leaves no call awaiting the
\* token endpoint
C11_LimiterBeforePost ==
    [][/\ last'.posted => last'.limiter = "allowed"
       /\ (inflight' # inflight /\ \E h \in inflight' : h \notin inflight)
             => last'.limiter = "allowed"
       /\ (\E p \in refreshPending' : p \notin refreshPending)
             => last'.limiter = "allowed"
       /\ last'.limiter = "denied"
             => /\ ~last'.posted
                /\ inflight' = inflight
                /\ refreshPending' = refreshPending]_vars

\* C11, its case: a refreshAccessToken call has been denied and has sent
\* nothing, after ten calls were sent in the window
C11_Witness ==
    /\ last.ev = "refresh_call"
    /\ last.limiter = "denied"
    /\ ~last.posted
    /\ refreshPending = {}
    /\ tokenRequestCount = 10
\* the record the store holds under the key "servicenow"
StoredServiceNow == AuthGet(store, "servicenow").value

\* C12: when authenticate has returned a result with success = true, the store
\* holds under "servicenow" a servicenow-oauth record with the flow's
\* normalized instance, client id, client secret, the returned access token
\* and an expiry
C12_SuccessMeansStored ==
    (pc = "returned" /\ returned.success)
        => /\ Read(StoredServiceNow, "type") = "servicenow-oauth"
           /\ Read(StoredServiceNow, "instance") = normalizedInstance
           /\ Read(StoredServiceNow, "clientId") = opts.clientId
           /\ Read(StoredServiceNow, "clientSecret") = opts.clientSecret
           /\ Read(StoredServiceNow, "accessToken") = returned.accessToken
           /\ Read(StoredServiceNow, "expiresAt") # NoNum

\* C13: a servicenow-oauth record in the store has an access token and a
\* refresh token
C13_BothTokensStored ==
    Read(StoredServiceNow, "type") = "servicenow-oauth"
        => /\ Truthy(Read(StoredServiceNow, "accessToken"))
           /\ Truthy(Read(StoredServiceNow, "refreshToken"))

\* C14: the expiry of the record that authenticate writes, and of the record
\* that refreshAccessToken writes, is the clock value at the exchange or
\* refresh plus expires_in * 1000, for every expires_in the provider returned
C14_ExpiryIsNowPlusExpiresIn ==
    [][/\ (pc # "saving" /\ pc' = "saving" /\ result'.expiresIn # NoNum)
             => pendingSet'.expiresAt = now + result'.expiresIn * 1000
       /\ (last'.ev = "refresh_response" /\ last'.ret.success
              /\ last'.ret.expiresIn # NoNum)
             => Read(AuthGet(store', "servicenow").value, "expiresAt")
                  = now + last'.ret.expiresIn * 1000]_vars
\* a call of the Auth namespace ends in this step
CallEnds == storeOut'.n = storeOut.n + 1
\* two records read the same in every field
SameRecord(a, b) == \A f \in (DOMAIN a \cup DOMAIN b) : Read(a, f) = Read(b, f)

\* C15: an Auth.get(k) that comes after an Auth.set(k, v) that wrote the file,
\* with no other write in between, returns the record v, whatever the file was
\* before the set
C15_GetAfterSet ==
    [][(CallEnds /\ storeOut.op = "set" /\ storeOut.written
           /\ storeOut'.op = "get" /\ storeOut'.key = storeOut.key)
          => /\ storeOut'.error = "none"
             /\ storeOut'.value # Absent
             /\ SameRecord(storeOut'.value, storeOut.info)]_vars

\* C15, its case: a record without refresh token and expiry was set on a file
\* that was not JSON, and the get after it has returned it
C15_Witness ==
    /\ storeOut.op = "get"
    /\ storeOut.key = "servicenow"
    /\ storeOut.prior.op = "set"
    /\ storeOut.prior.key = "servicenow"
    /\ storeOut.prior.written
    /\ storeOut.prior.beforeKind = "corrupt"
    /\ Read(storeOut.value, "accessToken") = "AT2"
    /\ Read(storeOut.value, "refreshToken") = Undef

\* C16: an Auth.set(A, v) on a file that is a JSON object, with no other write
\* between its read and its write, leaves what every other key holds as it was
C16_SetKeepsOtherKeys ==
    [][(CallEnds /\ storeOut'.op = "set" /\ storeOut'.written
           /\ storeOut'.lost = {} /\ store.kind = "object")
          => /\ store'.kind = "object"
             /\ \A b \in Keys \ {storeOut'.key} : store'.data[b] = store.data[b]]_vars

\* C16, its case: "servicenow" has been set on a file that held "anthropic"
C16_Witness ==
    /\ storeOut.op = "set"
    /\ storeOut.key = "servicenow"
    /\ storeOut.written
    /\ storeOut.lost = {}
    /\ storeOut.beforeKind = "object"
    /\ Read(store.data["anthropic"], "key") = "sk-1"
    /\ Read(store.data["servicenow"], "accessToken") = "AT1"

\* C17: an Auth.remove(k) whose write and chmod do not fail, with no other
\* write between its read and its write, raises no error, deletes k when k
\* was there, and leaves what every other key holds as it was
C17_RemoveOnlyThatKey ==
    [][(CallEnds /\ storeOut'.op = "remove" /\ storeOut'.lost = {}
           /\ storeOut'.error \notin {"write", "chmod"})
          => /\ storeOut'.error = "none"
             /\ AuthAll(store').data[storeOut'.key] = Absent
             /\ \A b \in Keys \ {storeOut'.key} :
                   AuthAll(store').data[b] = AuthAll(store).data[b]]_vars

\* C18: a call that reads a file that is missing or is not a JSON object does
\* not fail because of the read: get returns nothing, all returns the empty
\* object, set and remove write what they write on an empty store
C18_UnreadableIsEmpty ==
    [][(CallEnds /\ storeOut'.beforeKind \in {"missing", "corrupt", "null"})
          => /\ storeOut'.error # "TypeError"
             /\ storeOut'.op = "get" => storeOut'.value = Absent
             /\ storeOut'.op = "all"
                   => storeOut'.value = [isNull |-> FALSE, data |-> EmptyData]
             /\ (storeOut'.op = "set" /\ storeOut'.written)
                   => store' = WriteFile(AuthSet(EmptyData, storeOut'.key,
                                                 storeOut'.info))
             /\ (storeOut'.op = "remove" /\ storeOut'.written)
                   => store' = WriteFile(EmptyData)]_vars

\* C19: when the write of Auth.set fails, authenticate returns a failure that
\* carries the error, and so does refreshAccessToken, and the store is as it
\* was
C19_WriteFailureReported ==
    [][/\ last'.ev = "auth_set_failed"
             => /\ pc' = "returned"
                /\ ~returned'.success
                /\ returned'.error = ErrWrite
                /\ store' = store
       /\ last'.ev = "refresh_write_failed"
             => /\ ~last'.ret.success
                /\ last'.ret.error = ErrWrite
                /\ store' = store]_vars

\* C19, its case: the write of authenticate has failed and authenticate has
\* returned the failure, and then the write of a refresh has failed
C19_Witness ==
    /\ last.ev = "refresh_write_failed"
    /\ last.ret = Failure(ErrWrite)
    /\ pc = "returned"
    /\ result.success
    /\ returned = Failure(ErrWrite)
    /\ StoredServiceNow = Absent

\* C20: the file that a set or remove call leaves is the object that this
\* call read with its one key changed, whatever other calls have written
\* between its read and its write
C20_LastWriteWins ==
    [][(CallEnds /\ storeOut'.op \in {"set", "remove"} /\ storeOut'.written)
          => \A c \in storeOps :
                c.id = storeOut'.id
                  => store' = FileObject(
                        [k \in Keys |->
                            IF k # c.key THEN JsonStringify(c.snap.data[k])
                            ELSE IF c.op = "set" THEN JsonStringify(c.info)
                            ELSE Absent])]_vars

\* C20, its case: two set calls read the file, the set of "anthropic" wrote,
\* then the set of "servicenow" wrote: the file holds the old "anthropic"
C20_Witness ==
    /\ storeOut.op = "set"
    /\ storeOut.key = "servicenow"
    /\ storeOut.written
    /\ storeOut.lost = {"anthropic"}
    /\ storeOut.prior.op = "set"
    /\ storeOut.prior.key = "anthropic"
    /\ storeOut.prior.written
    /\ Read(store.data["anthropic"], "key") = "sk-1"
    /\ Read(store.data["servicenow"], "accessToken") = "AT1"

\* C21: after a refreshAccessToken that returned success, the record under
\* "servicenow" has the access token and the refresh token that the result
\* carries, and a newly computed expiry
C21_RefreshUpdatesRecord ==
    [][(last'.ev = "refresh_response" /\ last'.ret.success)
          => LET stored == AuthGet(store', "servicenow").value
             IN  /\ Read(stored, "accessToken") = last'.ret.accessToken
                 /\ Read(stored, "refreshToken") = last'.ret.refreshToken
                 /\ Read(stored, "expiresAt") # NoNum
                 /\ Read(stored, "expiresAt") >= now]_vars

\* server.listen was called and no socket was ever opened: the port was bound
BindFailed == listenCalls > 0 /\ ~serverOpen /\ socketCloses = 0

\* C22: a flow whose listener could not bind port 3005 has failed at once:
\* authenticate has returned a failure, it does not wait for the timeout
C22_BindFailureReported ==
    BindFailed => (pc = "returned" /\ ~returned.success /\ ~timerArmed)

\* C23: when auth.json holds a credential, its permission bits are 0600, and
\* they were 0600 between its most recent write and the chmod after it
C23_FileIsOwnerOnly ==
    (store.kind = "object" /\ \E k \in Keys : store.data[k] # Absent)
        => /\ fileMode.mode = Mode0600
           /\ fileMode.afterWrite \in {NoMode, Mode0600}

C26_SuccessPageMeansSuccess ==
    (flowKind = "listener" /\ last.ev = "exchange_response" /\ last.status = 200)
        => (resolved /\ result.success /\ result = last.ret)

\* C27: in a listener flow at most one handler awaits the token exchange
C27_AtMostOneExchange ==
    flowKind = "listener" => Cardinality(inflight) <= 1

\* the step in which authenticate or refreshAccessToken returns a failure
ReturnsFailure ==
    \/ pc = "saving" /\ pc' = "returned" /\ ~returned'.success
    \/ /\ last'.ev \in {"refresh_response", "refresh_write_failed",
                        "refresh_chmod_failed"}
       /\ ~last'.ret.success

\* C28: a step in which authenticate or refreshAccessToken returns a result
\* with success = false leaves the content of the credential store as it was
C28_FailureLeavesStore ==
    [][ReturnsFailure => store' = store]_vars

\* C29 (as stated): a token exchange that has been answered returns success
\* exactly when the status is 2xx and the body has no error field
C29_SuccessIffNoErrorField ==
    last.ev = "exchange_response" =>
        (last.ret.success <=> (Is2xx(last.resp) /\ ~HasErrorField(last.resp)))

\* C29 (amended): exchangeCodeForTokens returns a result for every answer of
\* the token endpoint; the result is a success exactly when the status is 2xx
\* and the body has no error field or an empty one, and a failure carries a
\* reason: the status, the error field of the body, or the message of what
\* was thrown
C29_SuccessIffNoNonEmptyError ==
    last.ev = "exchange_response" =>
        /\ last.ret.success <=> (Is2xx(last.resp) /\ ~Truthy(last.resp.error))
        /\ ~last.ret.success => last.ret.error # NoErr
        /\ last.resp.kind = "oauth_error" =>
               last.ret = Failure(ErrOAuth(last.resp.error))
        /\ last.resp.kind \in {"http_error", "thrown"} => ~last.ret.success

\* an exchange answered by a 2xx body with an empty error field has returned
\* a success carrying the tokens of the body
C29_Witness ==
    /\ last.ev = "exchange_response"
    /\ last.resp = EmptyErrorResponse
    /\ last.ret.success
    /\ last.ret.accessToken = "AT1"

\* C30: when the token endpoint has answered the exchange made for a callback
\* with matching state, no error and a code, the listener has answered 200 for
\* a success and 500 otherwise, is closed, and the flow is resolved with the
\* result of that exchange
C30_ExchangeResolvesFlow ==
    (flowKind = "listener" /\ last.ev = "exchange_response") =>
        /\ last.status = (IF last.ret.success THEN 200 ELSE 500)
        /\ ~serverOpen
        /\ resolved
        /\ result = last.ret

\* C31: once the flow of the callback listener is resolved, by whatever
\* outcome, and when authenticate goes on after it, server.close() has been
\* called: the listening socket is closed, and it was closed once
C31_ClosedBeforeResolved ==
    (flowKind = "listener" /\ (resolved \/ pc \in {"saving", "returned"})
                           /\ listenCalls > 0) =>
        (resolved /\ ~serverOpen /\ socketCloses <= 1)

\* a flow whose server was listening has been resolved by the timer, and its
\* socket has been closed
C31_Witness ==
    /\ flowKind = "listener"
    /\ resolved
    /\ result = Failure(ErrTimeout)
    /\ socketCloses = 1
    /\ ~serverOpen

\* C32: while a flow waits for its callback or for its code, the instance
\* holds the state and the PKCE pair that the flow put in its authorization
\* URL, whatever other authenticate call is made on the instance
C32_OneSessionPerInstance ==
    pc \in {"waiting", "prompt", "exchanging"} =>
        /\ stateParameter = authUrl.state
        /\ codeChallenge = authUrl.code_challenge
        /\ codeChallenge = Sha256B64(codeVerifier)

\* the sum of f over the set S
RECURSIVE SumOver(_, _)
SumOver(f, S) ==
    IF S = {} THEN 0
    ELSE LET x == CHOOSE y \in S : TRUE IN f[x] + SumOver(f, S \ {x})

\* the number of checks allowed in the 60000 ms from the instant a on
AllowedFrom(a) ==
    SumOver(allowedLog,
            {t \in LimiterInstants : a <= t /\ t <= a + TOKEN_REQUEST_WINDOW_MS})

\* C33: in any interval of 60000 ms the rate limiter allows at most 20 calls
C33_AtMostTwentyPerInterval ==
    \A a \in LimiterInstants : AllowedFrom(a) <= 20

\* calls of two windows have been allowed within 60000 ms: the last calls of
\* one window and the ten calls of the next
C33_Witness ==
    /\ allowedLog[StartTime + TOKEN_REQUEST_WINDOW_MS] = 9
    /\ allowedLog[StartTime + TOKEN_REQUEST_WINDOW_MS + 1] = 10
    /\ AllowedFrom(StartTime + TOKEN_REQUEST_WINDOW_MS) = 19

\* whether a check made now restarts the window
WindowElapsed == now - lastTokenRequest > TOKEN_REQUEST_WINDOW_MS

\* C34 (as stated): a check that returns false changes neither the counter nor
\* the window start, a check that returns true leaves the counter one above
\* what it was before the check, and the counter is never above 10
C34_AllowedAddsOne ==
    [][last'.ev = "limiter_check" =>
          /\ last'.limiter = "denied" =>
                 /\ tokenRequestCount' = tokenRequestCount
                 /\ lastTokenRequest' = lastTokenRequest
          /\ last'.limiter = "allowed" =>
                 tokenRequestCount' = tokenRequestCount + 1
          /\ tokenRequestCount' <= MAX_TOKEN_REQUESTS_PER_WINDOW]_vars

\* C34 (amended): a check that returns false changes neither the counter nor
\* the window start; a check that returns true increases the counter by one,
\* counted from 0 when the check restarts the window; the counter is never
\* above 10
C34_AllowedAddsOneAfterRestart ==
    [][last'.ev = "limiter_check" =>
          /\ last'.limiter = "denied" =>
                 /\ tokenRequestCount' = tokenRequestCount
                 /\ lastTokenRequest' = lastTokenRequest
                 /\ allowedLog' = allowedLog
          /\ last'.limiter = "allowed" =>
                 /\ tokenRequestCount' =
                        (IF WindowElapsed THEN 0 ELSE tokenRequestCount) + 1
                 /\ allowedLog'[now] = allowedLog[now] + 1
          /\ tokenRequestCount' <= MAX_TOKEN_REQUESTS_PER_WINDOW]_vars

\* a check has been denied in the second window, which a check restarted from
\* a full first one: the counter is 10
C34_Witness ==
    /\ last.ev = "limiter_check"
    /\ last.limiter = "denied"
    /\ tokenRequestCount = MAX_TOKEN_REQUESTS_PER_WINDOW
    /\ allowedLog[StartTime] = MAX_TOKEN_REQUESTS_PER_WINDOW
    /\ lastTokenRequest = StartTime + TOKEN_REQUEST_WINDOW_MS + 1

\* C35: a check restarts the window (window start to the instant of the
\* check, counter from 0) exactly when it is made more than 60000 ms after the
\* window start; a check at 60000 ms or less leaves the window start where it
\* was, and the first check of a fresh instance starts a window
C35_RestartOnlyAfterWindow ==
    [][last'.ev = "limiter_check" =>
          /\ WindowElapsed =>
                 /\ lastTokenRequest' = now
                 /\ tokenRequestCount' = 1
                 /\ last'.limiter = "allowed"
          /\ ~WindowElapsed => lastTokenRequest' = lastTokenRequest
          /\ now - lastTokenRequest = TOKEN_REQUEST_WINDOW_MS =>
                 /\ lastTokenRequest' = lastTokenRequest
                 /\ tokenRequestCount' >= tokenRequestCount
          /\ lastTokenRequest = 0 => lastTokenRequest' = now]_vars

\* a check made exactly 60000 ms after the window start has been denied in a
\* full window, which it did not restart
C35_Witness ==
    /\ last.ev = "limiter_check"
    /\ last.limiter = "denied"
    /\ lastTokenRequest = StartTime
    /\ now = StartTime + TOKEN_REQUEST_WINDOW_MS
    /\ tokenRequestCount = MAX_TOKEN_REQUESTS_PER_WINDOW

\* C36: a callback with the issued state, no error and no code is answered
\* 400 and resolves the flow as 'No authorization code received' with no
\* token exchange and no rate-limiter check; the state is looked at before
\* the error, and the error before the code
C36_MissingCodeRejected ==
    [][(last'.ev = "request" /\ Parses(last'.req.target)
                             /\ last'.req.target = "/callback") =>
          LET r == last'.req
          IN  /\ (r.state = stateParameter /\ ~Truthy(r.error)
                                           /\ ~Truthy(r.code)) =>
                     /\ last'.status = 400
                     /\ result' = Failure(ErrNoCode)
                     /\ ~last'.posted
                     /\ last'.limiter = "none"
                     /\ inflight' = inflight
                     /\ UNCHANGED limiterVars
              /\ r.state # stateParameter =>
                     (last'.status = 400 /\ result' = Failure(ErrInvalidState))
              /\ (r.state = stateParameter /\ Truthy(r.error)) =>
                     (last'.status = 400 /\ result' = Failure(ErrOAuth(r.error)))
       ]_vars

\* a callback with the issued state and neither error nor code has been
\* answered 400 and has resolved the flow as a missing-code failure
C36_Witness ==
    /\ last.ev = "request"
    /\ last.req.target = "/callback"
    /\ last.req.state = stateParameter
    /\ last.req.error = Undef
    /\ last.req.code = Undef
    /\ last.status = 400
    /\ result = Failure(ErrNoCode)
    /\ inflight = {}

\* the three ways a secret fails, as the specification words them
SecretBlank(s) == \A i \in 1..Len(s) : s[i] \in {" ", "\t"}
SecretShort(s) == Len(s) < 32
SecretHasWeakWord(s) ==
    \E w \in WeakWords : \E i \in 1..Len(s) :
       /\ i + Len(w) - 1 <= Len(s)
       /\ \A j \in 1..Len(w) : LowerOf(s[i + j - 1]) = w[j]

\* C37: authenticate goes on past validateClientSecret exactly for a secret
\* that is not blank, has 32 characters or more and holds no word of the
\* deny-list in any letter case; a refused secret is returned with the reason
\* of the first check it fails: blank, then length, then deny-list
C37_SecretAcceptedIff ==
    [][(pc = "idle" /\ pc' # "idle") =>
          LET s == opts'.clientSecret
          IN  /\ (pc' # "returned") <=>
                     ~(SecretBlank(s) \/ SecretShort(s) \/ SecretHasWeakWord(s))
              /\ SecretBlank(s) => returned' = Failure(ReasonRequired)
              /\ (~SecretBlank(s) /\ SecretShort(s)) =>
                     returned' = Failure(ReasonTooShort)
              /\ (~SecretBlank(s) /\ ~SecretShort(s) /\ SecretHasWeakWord(s)) =>
                     returned' = Failure(ReasonCommon)]_vars

\* the secret "snow", short and on the deny-list, has been refused as too
\* short
C37_Witness ==
    /\ pc = "returned"
    /\ last.ev = "authenticate"
    /\ opts.clientSecret = <<"s","n","o","w">>
    /\ returned = Failure(ReasonTooShort)

\* C38: once authenticate has returned from a flow that it started, the
\* instance holds neither the state nor the code verifier nor the code
\* challenge of that flow
C38_SessionDiscarded ==
    (pc = "returned" /\ authUrl # NoUrl) =>
        /\ stateParameter = Undef
        /\ codeVerifier = Undef
        /\ codeChallenge = NoChallenge
====
